---- MODULE Spec2Model ----
(***************************************************************************)
(* Model of the light_presets component (src/__init__.py): groups of       *)
(* lights whose attributes follow the value of a preset selector entity.   *)
(*                                                                         *)
(* Python dicts are functions from a finite set of string keys to values;  *)
(* the host's state store is the function `states`; every coroutine that   *)
(* is suspended at an `await` is an entry of `tasks`.  One action runs a   *)
(* coroutine from where it stands to its next `await` (or to its end).     *)
(***************************************************************************)
EXTENDS Integers, Sequences, FiniteSets, TLC

VARIABLES
    states,                     \* hass.states: entity id -> state string, or NoState
    tasks,                      \* suspended coroutines of the reactions, by slot
    last,                       \* what the last executed block read and emitted
    run,                        \* observer of consecutive undisturbed toggle commands
    services,                   \* hass.services: the handler registered as light.turn_on
    light_override_registered,  \* the module-level flag _light_override_registered
    events,                     \* service_registered events fired and not yet handled
    fired,                      \* number of service registrations made so far
    installs,                   \* number of times the override was registered
    forwarded,                  \* outcome of the last call of turn_on_override
    merge,                      \* inputs and result of merge_light_attributes
    config,                     \* the group table held by LightGroupsConfig
    skips                       \* installations given up for want of light.turn_on

vars == <<states, tasks, last, run, services, light_override_registered,
          events, fired, installs, forwarded, merge, config, skips>>

(***************************************************************************)
(* Bounds of the model.                                                    *)
(***************************************************************************)
MaxTasks == 1       \* coroutines of the reactions suspended at the same time
MaxFired == 2       \* service registrations made by the host's other components
MaxValue == 2       \* attribute values 1..MaxValue of the dicts merge_light_attributes is given

(***************************************************************************)
(* Dicts.                                                                  *)
(***************************************************************************)
EmptyMap == [k \in {} |-> 0]

\* {**a, **b}
Overlay(a, b) ==
    [k \in (DOMAIN a) \cup (DOMAIN b) |-> IF k \in DOMAIN b THEN b[k] ELSE a[k]]

\* {k: v for (k, v) in a.items() if k not in ks}
Without(a, ks) == [k \in (DOMAIN a) \ ks |-> a[k]]

\* d.get(k, default)
Get(d, k, default) == IF k \in DOMAIN d THEN d[k] ELSE default

(***************************************************************************)
(* Module constants.                                                       *)
(***************************************************************************)
LIGHT_ATTRIBUTES ==
    {"brightness", "kelvin", "rgb_color", "white_value", "color_temp",
     "color_name", "brightness_pct", "effect", "hs_color"}

COLOR_ATTRIBUTES ==
    {"kelvin", "rgb_color", "white_value", "color_temp", "color_name", "hs_color"}

\* A default that leaves a light without a policy of its own alone.
DEFAULT_STATE_off == "off"

DEFAULT_STATE == "on_if_anything_on"

STATE_ON == "on"

\* cv.ENTITY_SERVICE_FIELDS of the host
ENTITY_SERVICE_FIELDS == {"entity_id", "area_id"}

(***************************************************************************)
(* merge_light_attributes                                                  *)
(***************************************************************************)
sets_color(attr) == (DOMAIN attr) \cap COLOR_ATTRIBUTES # {}

\* A slip of `or` for `and` in the exclusivity test.
merge_light_attributes_or(defaults, overrides) ==
    IF sets_color(defaults) \/ sets_color(overrides)
    THEN Overlay(Without(defaults, COLOR_ATTRIBUTES), overrides)
    ELSE Overlay(defaults, overrides)

merge_light_attributes(defaults, overrides) ==
    IF sets_color(defaults) /\ sets_color(overrides)
    THEN Overlay(Without(defaults, COLOR_ATTRIBUTES), overrides)
    ELSE Overlay(defaults, overrides)

(***************************************************************************)
(* The configuration handed to async_setup, after LightGroupsConfig has    *)
(* added each group's id.  Preset names are slugs (lower case).  A preset  *)
(* holds "defaults" and per-light overrides side by side.                  *)
(***************************************************************************)
SELECTOR == "input_select.mode"

GroupOrder == <<"living", "hall">>      \* iteration order of the config dict

Config ==
    [living |->
        [id |-> "living", preset |-> SELECTOR, lights |-> <<"a", "b">>,
         presets |->
            [relax  |-> [defaults |-> [brightness |-> 100, state |-> "on"],
                         b |-> [state |-> "off"]],
             bright |-> [defaults |-> [brightness |-> 255,
                                       state |-> "on_if_anything_on"],
                         a |-> [state |-> "off"]],
             night  |-> [defaults |-> [color_temp |-> 300, transition |-> 5,
                                       state |-> "off"],
                         a |-> [hs_color |-> 12, state |-> "on"],
                         b |-> [state |-> "dim"]]]],
     hall |->
        [id |-> "hall", preset |-> SELECTOR, lights |-> <<"b">>,
         presets |->
            [relax |-> [defaults |-> [brightness |-> 100]],
             night |-> [b |-> [brightness |-> 20, state |-> "dim"]]]]]

GroupLights(g) == {Config[g].lights[i] : i \in 1..Len(Config[g].lights)}

Lights == UNION {GroupLights(g) : g \in DOMAIN Config}

Entities == Lights \cup {SELECTOR}

\* hass.states.get(entity) returning None
NoState == "<no state>"

LightStates == {"on", "off", NoState}

SelectorStates == {"relax", "Bright", "night", "away", NoState}

\* a lookup returning None
None == "<None>"

\* str.lower() on the values the selector takes
Lower(s) == CASE s = "Bright" -> "bright" [] OTHER -> s

(***************************************************************************)
(* LightGroupsConfig                                                       *)
(***************************************************************************)
get_group_by_preset_id(entity_id) ==
    SelectSeq(GroupOrder, LAMBDA id : Config[id].preset = entity_id)

get_group_by_name(name) ==
    LET found == SelectSeq(GroupOrder, LAMBDA id : id = name)
    IN  IF found = <<>> THEN None ELSE Head(found)

get_group_by_light(light) ==
    LET found == SelectSeq(GroupOrder, LAMBDA id : light \in GroupLights(id))
    IN  IF found = <<>> THEN None ELSE Head(found)

(***************************************************************************)
(* Reading the state store.                                                *)
(***************************************************************************)
\* A slip that takes a light without a recorded state for a light that is on.
is_light_on_unless_off(st, light) == st[light] # "off"

is_light_on(st, light) == st[light] # NoState /\ st[light] = STATE_ON

\* A slip of all() for any().
is_anything_on_all(st, group) ==
    \A i \in 1..Len(Config[group].lights) : is_light_on(st, Config[group].lights[i])

is_anything_on(st, group) ==
    \E i \in 1..Len(Config[group].lights) : is_light_on(st, Config[group].lights[i])

\* hass.states.get(group["preset"]) is None: `.state` raises AttributeError
preset_missing(st, group) == st[Config[group].preset] = NoState

\* A selector read replaced by the name of one preset.
selected_preset_relax(st, group) == "relax"

\* get_light_settings: hass.states.get(group["preset"]).state
selected_preset(st, group) == st[config[group].preset]

\* Settings whose attributes still hold the reserved key.
get_light_settings_keep_state(st, group, entity_id) ==
    LET preset    == Get(config[group].presets, Lower(selected_preset(st, group)),
                         EmptyMap)
        defaults  == Get(preset, "defaults", EmptyMap)
        overrides == Get(preset, entity_id, EmptyMap)
        merged    == merge_light_attributes(defaults, overrides)
    IN  [attributes |-> merged,
         meta       |-> [state |-> Get(merged, "state", DEFAULT_STATE)]]

\* get_light_settings, for a selector that has a state
get_light_settings(st, group, entity_id) ==
    LET preset    == Get(config[group].presets, Lower(selected_preset(st, group)),
                         EmptyMap)
        defaults  == Get(preset, "defaults", EmptyMap)
        overrides == Get(preset, entity_id, EmptyMap)
        merged    == merge_light_attributes(defaults, overrides)
    IN  [attributes |-> Without(merged, {"state"}),
         meta       |-> [state |-> Get(merged, "state", DEFAULT_STATE)]]

\* A merge that hands back `defaults` itself when there is nothing to lay
\* over it.
merged_is_new_with_overrides(defaults, overrides) == overrides # EmptyMap

\* merge_light_attributes returns {**defaults, **overrides}: a dict of its
\* own, not one of the group table's
merged_is_new(defaults, overrides) == TRUE

\* The group table after the in-place operations that follow one call of
\* get_light_settings: merged.pop("state", ...) and, in group_lights_turn_on
\* with preset_brightness_pct, attributes['brightness'] = ...  They act on
\* the dict merge_light_attributes returned.
settings_written(cfg, st, group, entity_id, params) ==
    LET presets == cfg[group].presets
        name == Lower(st[cfg[group].preset])
    IN  IF name \notin DOMAIN presets THEN cfg
        ELSE LET preset == presets[name]
                 defaults == Get(preset, "defaults", EmptyMap)
                 overrides == Get(preset, entity_id, EmptyMap)
                 popped == Without(defaults, {"state"})
                 scaled ==
                     IF "preset_brightness_pct" \in DOMAIN params
                     THEN Overlay(popped,
                            [brightness |->
                                (Get(popped, "brightness", 255)
                                   * params["preset_brightness_pct"]) \div 100])
                     ELSE popped
             IN  IF "defaults" \notin DOMAIN preset \/ merged_is_new(defaults, overrides)
                 THEN cfg
                 ELSE [cfg EXCEPT ![group].presets =
                          [presets EXCEPT ![name] =
                              [preset EXCEPT !["defaults"] = scaled]]]

(***************************************************************************)
(* Calls of the light services.  entity_id is one id or a list of ids.     *)
(***************************************************************************)
One(id) == [list |-> FALSE, ids |-> <<id>>]

Many(ids) == [list |-> TRUE, ids |-> ids]

NoCmd == [service |-> "none", data |-> EmptyMap]

\* hass.services.async_call("light", "turn_on", {"entity_id": light, **attributes})
turn_on_light(light, attributes) ==
    [service |-> "turn_on", data |-> Overlay([entity_id |-> One(light)], attributes)]

\* hass.services.async_call("light", "turn_off", {"entity_id": light})
turn_off_light(light) ==
    [service |-> "turn_off", data |-> [entity_id |-> One(light)]]

\* A turn-off that reaches the first light of the group only.
group_lights_turn_off_first(group) ==
    [service |-> "turn_off", data |-> [entity_id |-> Many(<<Config[group].lights[1]>>)]]

\* hass.services.async_call("light", "turn_off", {"entity_id": group["lights"]})
group_lights_turn_off(group) ==
    [service |-> "turn_off", data |-> [entity_id |-> Many(Config[group].lights)]]

\* The lights: each takes the state of the last command sent to it.  (What
\* else the host does to a light is a SetState step; the passage of a
\* turn_on command through the handler registered as light.turn_on is the
\* subject of SpecOverride.)
Apply(st, cmd) ==
    IF cmd.service = "none" THEN st
    ELSE LET ids == cmd.data.entity_id.ids
             hit == {ids[i] : i \in 1..Len(ids)} \cap DOMAIN st
         IN  [e \in DOMAIN st |->
                 IF e \in hit
                 THEN (IF cmd.service = "turn_on" THEN "on" ELSE "off")
                 ELSE st[e]]

(***************************************************************************)
(* Coroutines.  A task is a coroutine suspended at an await: its kind, the *)
(* groups it still has to handle (the first is the current one), the index *)
(* of the next light of the current group (0: the group's update has not   *)
(* been entered), the value of anything_on it holds and its parameters.    *)
(***************************************************************************)
Idle == [kind |-> "idle", groups |-> <<>>, i |-> 0, anything_on |-> FALSE,
         params |-> EmptyMap]

Task(kind, groups, i, anything_on, params) ==
    [kind |-> kind, groups |-> groups, i |-> i, anything_on |-> anything_on,
     params |-> params]

\* The outcome of one block: the exception that ended the coroutine (if
\* any), the command it awaits, the coroutine as it is suspended (Idle when
\* it has ended) and the lights it went through with what it did for each.
Outcome(exc, cmd, task, steps) ==
    [exc |-> exc, cmd |-> cmd, task |-> task, steps |-> steps]

Visit(group, i, anything_on, cmd) ==
    [group |-> group, i |-> i, light |-> Config[group].lights[i],
     anything_on |-> anything_on, cmd |-> cmd]

\* A coroutine with nothing left to do after the await it is suspended at
\* (the last light of its last group) has ended as far as anyone can tell.
Suspended(task) ==
    IF Len(task.groups) = 1 /\ task.i > Len(Config[Head(task.groups)].lights)
    THEN Idle ELSE task

\* A turn-on command that sends a light whatever its policy.
turn_on_wanted_always(settings) == TRUE

\* group_lights_turn_on: the test of the light's policy
turn_on_wanted(settings) == settings.meta.state # "off"

\* group_lights_turn_on from light i to its next await
RECURSIVE turn_on_block(_, _, _, _, _)
turn_on_block(st, group, i, params, steps) ==
    IF i > Len(Config[group].lights)
    THEN Outcome("none", NoCmd, Idle, steps)
    ELSE IF preset_missing(st, group)
    THEN Outcome("AttributeError", NoCmd, Idle, steps)
    ELSE LET light == Config[group].lights[i]
             settings == get_light_settings(st, group, light)
             attributes ==
                 IF "preset_brightness_pct" \in DOMAIN params
                 THEN Overlay(settings.attributes,
                        [brightness |->
                            (Get(settings.attributes, "brightness", 255)
                               * params["preset_brightness_pct"]) \div 100])
                 ELSE settings.attributes
             cmd == IF turn_on_wanted(settings)
                    THEN turn_on_light(light, attributes) ELSE NoCmd
             visited == Append(steps, Visit(group, i, FALSE, cmd))
         IN  IF cmd.service # "none"
             THEN Outcome("none", cmd,
                          Suspended(Task("turn_on", <<group>>, i + 1, FALSE, params)),
                          visited)
             ELSE turn_on_block(st, group, i + 1, params, visited)

\* A reaction that turns an on_if_anything_on light on whatever the others do.
update_light_eager(st, light, settings, anything_on) ==
    IF is_light_on(st, light)
    THEN IF settings.meta.state = "off"
         THEN turn_off_light(light)
         ELSE turn_on_light(light, settings.attributes)
    ELSE IF settings.meta.state = "on" \/ settings.meta.state = "on_if_anything_on"
         THEN turn_on_light(light, settings.attributes)
         ELSE NoCmd

\* What group_lights_update does for one light.
update_light(st, light, settings, anything_on) ==
    IF is_light_on(st, light)
    THEN IF settings.meta.state = "off"
         THEN turn_off_light(light)
         ELSE turn_on_light(light, settings.attributes)
    ELSE IF settings.meta.state = "on"
            \/ (settings.meta.state = "on_if_anything_on" /\ anything_on)
         THEN turn_on_light(light, settings.attributes)
         ELSE NoCmd

\* A reaction that looks at the lights again for every light it handles.
held_anything_on_reread(st, group, anything_on) == is_anything_on(st, group)

\* group_lights_update: the local anything_on, assigned once before the loop
held_anything_on(st, group, anything_on) == anything_on

\* A listener that does not look at the event's old_state.
update_triggered_by_any(groups, old_state) == groups # <<>>

\* on_state_changed: if groups and event.data.get("old_state")
update_triggered(groups, old_state) == groups # <<>> /\ old_state

\* on_state_changed's loop over its groups, from light i of the first of
\* them to its next await
RECURSIVE update_block(_, _, _, _, _)
update_block(st, groups, i, anything_on, steps) ==
    IF groups = <<>>
    THEN Outcome("none", NoCmd, Idle, steps)
    ELSE LET group == Head(groups) IN
         IF i = 0
         THEN update_block(st, groups, 1, is_anything_on(st, group), steps)
         ELSE IF i > Len(Config[group].lights)
         THEN update_block(st, Tail(groups), 0, FALSE, steps)
         ELSE IF preset_missing(st, group)
         THEN Outcome("AttributeError", NoCmd, Idle, steps)
         ELSE LET light == Config[group].lights[i]
                  settings == get_light_settings(st, group, light)
                  decides == held_anything_on(st, group, anything_on)
                  cmd == update_light(st, light, settings, decides)
                  visited == Append(steps, Visit(group, i, decides, cmd))
              IN  IF cmd.service # "none"
                  THEN Outcome("none", cmd,
                               Suspended(Task("update", groups, i + 1, anything_on,
                                              EmptyMap)),
                               visited)
                  ELSE update_block(st, groups, i + 1, anything_on, visited)

(***************************************************************************)
(* The reactions.  Every action is one block of one coroutine: it reads    *)
(* the state store as it is, and ends at the await of the one command it   *)
(* emits, or with the coroutine.                                           *)
(***************************************************************************)
Slots == 1..MaxTasks

AllIdle == \A s \in Slots : tasks[s] = Idle

\* the slot a new coroutine is suspended in
Free(s) == tasks[s] = Idle /\ \A t \in 1..(s - 1) : tasks[t] # Idle

NoRun == [group |-> None, orig |-> [e \in Entities |-> NoState], started |-> 0]

Record(op, arg, anything_on, out) ==
    [op |-> op, arg |-> arg, pre |-> states, anything_on |-> anything_on,
     exc |-> out.exc, cmd |-> out.cmd, steps |-> out.steps]

OverrideUnchanged ==
    UNCHANGED <<services, light_override_registered, events, fired, installs,
                forwarded, merge, skips>>

\* the group table after the calls of get_light_settings of one block
RECURSIVE config_after(_, _, _, _)
config_after(cfg, st, steps, params) ==
    IF steps = <<>> THEN cfg
    ELSE config_after(settings_written(cfg, st, Head(steps).group, Head(steps).light,
                                       params),
                      st, Tail(steps), params)

Block(s, op, arg, anything_on, out) ==
    /\ states' = Apply(states, out.cmd)
    /\ tasks' = [tasks EXCEPT ![s] = out.task]
    /\ last' = Record(op, arg, anything_on, out)
    /\ OverrideUnchanged

\* the service light_presets.light_on
service_light_on(s, call) ==
    LET group == get_group_by_name(call["light_group"])
        out == IF group = None
               THEN Outcome("TypeError", NoCmd, Idle, <<>>)
               ELSE turn_on_block(states, group, 1, call, <<>>)
    IN  /\ Free(s)
        /\ Block(s, "light_on", call, FALSE, out)
        /\ config' = config_after(config, states, out.steps, call)
        /\ run' = NoRun

\* the service light_presets.light_off
service_light_off(s, call) ==
    LET group == get_group_by_name(call["light_group"])
        out == IF group = None
               THEN Outcome("TypeError", NoCmd, Idle, <<>>)
               ELSE Outcome("none", group_lights_turn_off(group), Idle, <<>>)
    IN  /\ Free(s)
        /\ Block(s, "light_off", call, FALSE, out)
        /\ UNCHANGED config
        /\ run' = NoRun

\* the service light_presets.light_toggle
service_light_toggle(s, call) ==
    LET group == get_group_by_name(call["light_group"])
        anything_on == IF group = None THEN FALSE ELSE is_anything_on(states, group)
        out == IF group = None
               THEN Outcome("TypeError", NoCmd, Idle, <<>>)
               ELSE IF anything_on
               THEN Outcome("none", group_lights_turn_off(group), Idle, <<>>)
               ELSE turn_on_block(states, group, 1, EmptyMap, <<>>)
    IN  /\ Free(s)
        /\ Block(s, "light_toggle", call, anything_on, out)
        /\ config' = config_after(config, states, out.steps, EmptyMap)
        /\ run' = IF group = None \/ ~AllIdle THEN NoRun
                  ELSE IF run.group = group /\ run.started = 1
                  THEN [run EXCEPT !.started = 2]
                  ELSE [group |-> group, orig |-> states, started |-> 1]

\* the listener of EVENT_STATE_CHANGED
on_state_changed(s, entity_id, old_state) ==
    LET groups == get_group_by_preset_id(entity_id)
        out == IF update_triggered(groups, old_state)
               THEN update_block(states, groups, 0, FALSE, <<>>)
               ELSE Outcome("none", NoCmd, Idle, <<>>)
    IN  /\ Free(s)
        /\ Block(s, "state_changed", [entity_id |-> entity_id, old_state |-> old_state],
                 FALSE, out)
        /\ config' = config_after(config, states, out.steps, EmptyMap)
        /\ run' = NoRun

\* a suspended coroutine goes on after its await
Resume(s) ==
    LET t == tasks[s]
        out == IF t.kind = "update"
               THEN update_block(states, t.groups, t.i, t.anything_on, <<>>)
               ELSE turn_on_block(states, Head(t.groups), t.i, t.params, <<>>)
    IN  /\ t # Idle
        /\ Block(s, t.kind, t, t.anything_on, out)
        /\ config' = config_after(config, states, out.steps, t.params)
        /\ UNCHANGED run

\* anything else of the host writes a state: a light is switched or lost, the
\* selector is set or removed
SetState(entity, value) ==
    /\ states[entity] # value
    /\ states' = [states EXCEPT ![entity] = value]
    /\ last' = [Record("set_state", EmptyMap, FALSE, Outcome("none", NoCmd, Idle, <<>>))
                    EXCEPT !.pre = states']
    /\ run' = NoRun
    /\ UNCHANGED <<tasks, config>>
    /\ OverrideUnchanged

(***************************************************************************)
(* The override of light.turn_on.  The handler registered as light.turn_on *)
(* is the light component's own (depth 0) under `depth` layers of          *)
(* turn_on_override: each layer forwards to the handler it was built with. *)
(***************************************************************************)
\* color_util.color_name_to_rgb of the host, on the names used here
color_name_to_rgb(name) ==
    CASE name = "red" -> <<255, 0, 0>> [] OTHER -> <<255, 255, 255>>

\* preprocess_turn_on_alternatives of the host's light component: the
\* alternative spellings are replaced by the attribute they stand for
preprocess_turn_on_alternatives(params) ==
    LET p1 == IF "color_name" \in DOMAIN params
              THEN Overlay(Without(params, {"color_name"}),
                           [rgb_color |-> color_name_to_rgb(params["color_name"])])
              ELSE params
        p2 == IF "kelvin" \in DOMAIN p1
              THEN Overlay(Without(p1, {"kelvin"}),
                           [color_temp |-> 1000000 \div p1["kelvin"]])
              ELSE p1
    IN  IF "brightness_pct" \in DOMAIN p2
        THEN Overlay(Without(p2, {"brightness_pct"}),
                     [brightness |-> (255 * p2["brightness_pct"] + 50) \div 100])
        ELSE p2

preprocess_data(data) ==
    LET base == [k \in (DOMAIN data) \cap ENTITY_SERVICE_FIELDS |-> data[k]]
    IN  Overlay(base,
                [params |-> preprocess_turn_on_alternatives(
                                Without(data, ENTITY_SERVICE_FIELDS))])

has_custom_attributes(data) == \E attr \in LIGHT_ATTRIBUTES : attr \in DOMAIN data

\* Defaults injected whatever the caller asked for.
inject_wanted_in_group(group, data) == group # None

\* turn_on_override: the test that decides whether defaults are injected
inject_wanted(group, data) == group # None /\ ~has_custom_attributes(data)

\* turn_on_override: the request with the group's attributes added
augmented(data, attributes) == Overlay(data, attributes)

Forward(exc, light, group, injected, event_data) ==
    [exc |-> exc, light |-> light, group |-> group, injected |-> injected,
     calls |-> IF exc = "none" THEN 1 ELSE 0,
     event_data |-> event_data,
     data |-> IF exc = "none" THEN preprocess_data(event_data) ELSE EmptyMap]

\* turn_on_override up to its await of the handler it wraps
turn_on_override(st, data) ==
    LET entity_id == Get(data, "entity_id", One(None))
    IN  IF entity_id.list /\ entity_id.ids = <<>>
        THEN Forward("IndexError", None, None, FALSE, EmptyMap)
        ELSE LET light == entity_id.ids[1]
                 group == get_group_by_light(light)
             IN  IF inject_wanted(group, data)
                 THEN IF preset_missing(st, group)
                      THEN Forward("AttributeError", light, group, FALSE, EmptyMap)
                      ELSE Forward("none", light, group, TRUE,
                                   augmented(data,
                                       get_light_settings(st, group, light).attributes))
                 ELSE Forward("none", light, group, FALSE, data)

ReactorUnchanged == UNCHANGED <<states, tasks, last, run>>

\* a call of light.turn_on reaches the override
light_turn_on_called(data) ==
    /\ services.present
    /\ services.depth >= 1
    /\ forwarded' = [handled |-> TRUE, caller |-> data, selector |-> states[SELECTOR],
                     target |-> services.depth - 1]
                    @@ turn_on_override(states, data)
    /\ config' = LET out == turn_on_override(states, data)
                 IN  IF out.injected
                     THEN settings_written(config, states, out.group, out.light, EmptyMap)
                     ELSE config
    /\ UNCHANGED <<services, light_override_registered, events, fired, installs, merge,
                   skips>>
    /\ ReactorUnchanged

\* a component of the host registers a service
RegisterService(domain, service) ==
    /\ fired < MaxFired
    /\ fired' = fired + 1
    /\ services' = IF domain = "light" /\ service = "turn_on"
                   THEN [present |-> TRUE, depth |-> 0]
                   ELSE services
    /\ events' = Append(events, [domain |-> domain, service |-> service])
    /\ UNCHANGED <<light_override_registered, installs, forwarded, merge, config,
                   skips>>
    /\ ReactorUnchanged

\* the host removes light.turn_on
RemoveService ==
    /\ services.present
    /\ services' = [present |-> FALSE, depth |-> 0]
    /\ UNCHANGED <<light_override_registered, events, fired, installs, forwarded, merge,
                   config, skips>>
    /\ ReactorUnchanged

\* A listener that takes every attempt, made or given up, for an installation.
flag_after_skip_set == TRUE

\* on_service_registered: the return in `except KeyError` leaves the flag
flag_after_skip == light_override_registered

\* An installation that leaves the flag as it was.
flag_after_install_unset == light_override_registered

\* on_service_registered: _light_override_registered = True
flag_after_install == TRUE

\* the listener of EVENT_SERVICE_REGISTERED, on the oldest event not yet handled
on_service_registered ==
    /\ events # <<>>
    /\ LET event == Head(events)
           install == /\ event.domain = "light"
                      /\ event.service = "turn_on"
                      /\ light_override_registered = FALSE
                      /\ services.present
           skip == /\ event.domain = "light"
                   /\ event.service = "turn_on"
                   /\ light_override_registered = FALSE
                   /\ ~services.present
       IN  IF install
           THEN /\ services' = [present |-> TRUE, depth |-> services.depth + 1]
                /\ light_override_registered' = flag_after_install
                /\ installs' = installs + 1
                /\ events' = Append(Tail(events),
                                    [domain |-> "light", service |-> "turn_on"])
                /\ UNCHANGED skips
           ELSE IF skip
           THEN /\ events' = Tail(events)
                /\ light_override_registered' = flag_after_skip
                /\ skips' = skips + 1
                /\ UNCHANGED <<services, installs>>
           ELSE /\ events' = Tail(events)
                /\ UNCHANGED <<services, light_override_registered, installs, skips>>
    /\ UNCHANGED <<fired, forwarded, merge, config>>
    /\ ReactorUnchanged

Requests ==
    {[entity_id |-> One("a")],
     [entity_id |-> One("a"), transition |-> 1],
     [entity_id |-> One("a"), brightness |-> 30],
     [entity_id |-> One("b"), brightness_pct |-> 20],
     [entity_id |-> Many(<<"b", "x">>)],
     [entity_id |-> Many(<<"x", "a">>), transition |-> 1],
     [entity_id |-> One("x")],
     [entity_id |-> Many(<<>>)],
     [area_id |-> "kitchen"]}

RegisteredServices ==
    {<<"light", "turn_on">>, <<"light", "turn_off">>, <<"switch", "turn_on">>}

(***************************************************************************)
(* merge_light_attributes on its own.                                      *)
(***************************************************************************)
MergeKeys == {"brightness", "color_temp", "hs_color"}

MergeInputs ==
    {Overlay(f, g) :
        f \in UNION {[K -> 1..MaxValue] : K \in SUBSET MergeKeys},
        g \in {EmptyMap} \cup {[state |-> v] : v \in {"on", "off"}}}

MergeApply ==
    /\ ~merge.done
    /\ merge' = [merge EXCEPT
                   !.result = merge_light_attributes(merge.defaults, merge.overrides),
                   !.done = TRUE]
    /\ UNCHANGED <<services, light_override_registered, events, fired, installs,
                   forwarded, config, skips>>
    /\ ReactorUnchanged

GroupNames == {"living", "hall", "attic"}

Calls ==
    {[light_group |-> n] : n \in GroupNames}
        \cup {[light_group |-> "living", preset_brightness_pct |-> 20]}

EventEntities == {SELECTOR, "sensor.outside"}

NoForward ==
    [handled |-> FALSE, caller |-> EmptyMap, selector |-> NoState, target |-> 0]
        @@ [Forward("none", None, None, FALSE, EmptyMap) EXCEPT !.calls = 0]

NoMerge == [defaults |-> EmptyMap, overrides |-> EmptyMap, result |-> EmptyMap,
            done |-> FALSE]

InitReactor ==
    /\ states \in {st \in [Entities -> LightStates \cup SelectorStates] :
                     /\ st[SELECTOR] \in SelectorStates
                     /\ \A l \in Lights : st[l] \in LightStates}
    /\ tasks = [s \in Slots |-> Idle]
    /\ last = Record("init", EmptyMap, FALSE, Outcome("none", NoCmd, Idle, <<>>))
    /\ run = NoRun

InitOverride ==
    /\ services \in {[present |-> p, depth |-> 0] : p \in BOOLEAN}
    /\ light_override_registered = FALSE
    /\ events = <<>>
    /\ fired = 0
    /\ installs = 0
    /\ skips = 0
    /\ forwarded = NoForward

Init ==
    /\ config = Config
    /\ InitReactor
    /\ InitOverride
    /\ merge = NoMerge

Next ==
    \/ \E s \in Slots, call \in Calls : service_light_on(s, call)
    \/ \E s \in Slots, call \in Calls : service_light_off(s, call)
    \/ \E s \in Slots, call \in Calls : service_light_toggle(s, call)
    \/ \E s \in Slots, e \in EventEntities, old \in BOOLEAN : on_state_changed(s, e, old)
    \/ \E s \in Slots : Resume(s)
    \/ \E l \in Lights, v \in LightStates : SetState(l, v)
    \/ \E v \in SelectorStates : SetState(SELECTOR, v)

Spec == Init /\ [][Next]_vars

(***************************************************************************)
(* The override and its installation, with the reactions at rest.          *)
(***************************************************************************)
InitAtRest ==
    /\ states \in {st \in [Entities -> {"off"} \cup SelectorStates] :
                     /\ st[SELECTOR] \in SelectorStates
                     /\ \A l \in Lights : st[l] = "off"}
    /\ tasks = [s \in Slots |-> Idle]
    /\ last = Record("init", EmptyMap, FALSE, Outcome("none", NoCmd, Idle, <<>>))
    /\ run = NoRun

InitOverrideSpec ==
    /\ config = Config
    /\ InitAtRest
    /\ InitOverride
    /\ merge = NoMerge

NextOverride ==
    \/ \E r \in RegisteredServices : RegisterService(r[1], r[2])
    \/ RemoveService
    \/ on_service_registered
    \/ \E data \in Requests : light_turn_on_called(data)
    \/ \E v \in SelectorStates : SetState(SELECTOR, v)

SpecOverride == InitOverrideSpec /\ [][NextOverride]_vars

InitMerge ==
    /\ config = Config
    /\ InitAtRest
    /\ states[SELECTOR] = NoState
    /\ InitOverride
    /\ services.present
    /\ merge \in {[defaults |-> d, overrides |-> o, result |-> EmptyMap,
                   done |-> FALSE] : d \in MergeInputs, o \in MergeInputs}

NextMerge == MergeApply

SpecMerge == InitMerge /\ [][NextMerge]_vars

(***************************************************************************)
(* Properties.                                                             *)
(***************************************************************************)
\* the command sent for light l alone, with payload `attributes`
IsTurnOn(cmd, l, attributes) ==
    /\ cmd.service = "turn_on"
    /\ DOMAIN cmd.data = {"entity_id"} \cup DOMAIN attributes
    /\ cmd.data["entity_id"] = [list |-> FALSE, ids |-> <<l>>]
    /\ \A k \in DOMAIN attributes : k # "entity_id" => cmd.data[k] = attributes[k]

IsTurnOffOf(cmd, l) ==
    /\ cmd.service = "turn_off"
    /\ DOMAIN cmd.data = {"entity_id"}
    /\ cmd.data["entity_id"] = [list |-> FALSE, ids |-> <<l>>]

\* the block that was executed last belongs to a group update reaction
UpdateBlock == last.op \in {"state_changed", "update"}

\* the block that was executed last belongs to a turnOn command
TurnOnBlock == last.op \in {"light_on", "turn_on"}

LastStep == last.steps[Len(last.steps)]

\* C1: in the group update reaction the lights of a group are taken in list
\* order; a light that is on gets exactly one command (a turn-off of that
\* light alone when its policy is off, else a turn-on with its resolved
\* attributes); a light that is off gets a turn-on with its resolved
\* attributes exactly when its policy is on, or on_if_anything_on while the
\* reaction's anything_on is true, and no command otherwise.  The reaction
\* is suspended after each command and goes on with the next light.
C1_GroupUpdate ==
    UpdateBlock =>
        /\ \A j \in 1..Len(last.steps) :
              LET step == last.steps[j]
                  l == Config[step.group].lights[step.i]
                  settings == get_light_settings(last.pre, step.group, l)
                  policy == settings.meta.state
                  on == last.pre[l] = "on"
              IN  /\ step.light = l
                  /\ last.pre[SELECTOR] # NoState
                  /\ (on /\ policy = "off") => IsTurnOffOf(step.cmd, l)
                  /\ (on /\ policy # "off") =>
                        IsTurnOn(step.cmd, l, settings.attributes)
                  /\ (~on /\ (policy = "on"
                              \/ (policy = "on_if_anything_on" /\ step.anything_on)))
                        => IsTurnOn(step.cmd, l, settings.attributes)
                  /\ (~on /\ ~(policy = "on"
                               \/ (policy = "on_if_anything_on" /\ step.anything_on)))
                        => step.cmd.service = "none"
                  \* one command, then the await: only the last light of a
                  \* block has one
                  /\ j < Len(last.steps) => step.cmd.service = "none"
                  /\ j = Len(last.steps) => step.cmd = last.cmd
                  \* list order, every light
                  /\ j < Len(last.steps) =>
                        IF step.i < Len(Config[step.group].lights)
                        THEN /\ last.steps[j + 1].group = step.group
                             /\ last.steps[j + 1].i = step.i + 1
                        ELSE /\ last.steps[j + 1].group # step.group
                             /\ last.steps[j + 1].i = 1
        /\ (last.op = "state_changed" /\ last.steps # <<>>) =>
              /\ last.steps[1].i = 1
              /\ Config[last.steps[1].group].preset = last.arg.entity_id
              /\ last.steps[1].anything_on
                    = (\E l \in GroupLights(last.steps[1].group) : last.pre[l] = "on")
        /\ (last.op = "update" /\ last.steps # <<>>) =>
              IF last.arg.i <= Len(Config[Head(last.arg.groups)].lights)
              THEN /\ last.steps[1].group = Head(last.arg.groups)
                   /\ last.steps[1].i = last.arg.i
                   /\ last.steps[1].anything_on = last.arg.anything_on
              ELSE /\ last.steps[1].group = last.arg.groups[2]
                   /\ last.steps[1].i = 1
        /\ (last.steps # <<>> /\ last.cmd.service # "none"
              /\ LastStep.i < Len(Config[LastStep.group].lights)) =>
              \E s \in Slots :
                 /\ tasks[s].kind = "update"
                 /\ Head(tasks[s].groups) = LastStep.group
                 /\ tasks[s].i = LastStep.i + 1
                 /\ tasks[s].anything_on = LastStep.anything_on

\* C1 witness: the selector went to "Bright" while a was on and b off; the
\* reaction, resumed after its command for a, turns b on with brightness 255.
C1_Witness ==
    /\ last.op = "update"
    /\ last.pre[SELECTOR] = "Bright"
    /\ last.pre["a"] = "on"
    /\ last.pre["b"] = "off"
    /\ last.steps # <<>>
    /\ last.steps[1].group = "living"
    /\ last.steps[1].light = "b"
    /\ last.steps[1].anything_on
    /\ last.cmd.service = "turn_on"
    /\ last.cmd.data["brightness"] = 255
    /\ states["b"] = "on"

\* the parameters of the turnOn command the last block belongs to
TurnOnParams == IF last.op = "light_on" THEN last.arg ELSE last.arg.params

RequestLight(data) ==
    IF "entity_id" \in DOMAIN data /\ data["entity_id"].ids # <<>>
    THEN data["entity_id"].ids[1] ELSE None

\* the state store as turn_on_override read it for the request handled last
StoreAtRequest ==
    [e \in Entities |-> IF e = SELECTOR THEN forwarded.selector ELSE states[e]]

\* C3: the request forwarded by the override carries the group's resolved
\* attributes if and only if the requested light is a member of a group and
\* the request has none of the recognized light attribute keys; otherwise
\* the forwarded request is the caller's data, unmodified.
C3_InjectIff ==
    (forwarded.handled /\ forwarded.calls = 1) =>
        LET data == forwarded.caller
            light == RequestLight(data)
            member == \E g \in DOMAIN Config : light \in GroupLights(g)
            custom == (DOMAIN data) \cap
                        {"brightness", "kelvin", "rgb_color", "white_value",
                         "color_temp", "color_name", "brightness_pct", "effect",
                         "hs_color"} # {}
        IN  /\ forwarded.injected <=> (member /\ ~custom)
            /\ forwarded.data = preprocess_data(forwarded.event_data)
            /\ ~(member /\ ~custom) => forwarded.event_data = data
            /\ (member /\ ~custom) =>
                  LET attributes ==
                          get_light_settings(StoreAtRequest,
                                             get_group_by_light(light),
                                             light).attributes
                  IN  /\ DOMAIN forwarded.event_data = (DOMAIN data) \cup DOMAIN attributes
                      /\ \A k \in DOMAIN attributes :
                            forwarded.event_data[k] = attributes[k]

\* C3 witness: a request for light a with an explicit brightness under a
\* preset that sets one passes through as the caller gave it.
C3_Witness ==
    /\ forwarded.handled
    /\ forwarded.calls = 1
    /\ forwarded.selector = "relax"
    /\ forwarded.group = "living"
    /\ DOMAIN forwarded.caller = {"entity_id", "brightness"}
    /\ ~forwarded.injected
    /\ forwarded.event_data = forwarded.caller
    /\ forwarded.data["params"]["brightness"] = 30

\* C4: the override is installed at most once, whatever service_registered
\* events are handled and in whatever order; the handler registered as
\* light.turn_on never has a second layer of the override, and the flag is
\* set as soon as the override is installed.
C4_InstalledAtMostOnce ==
    /\ installs <= 1
    /\ services.depth <= 1
    /\ installs = 1 => light_override_registered

\* C4 witness: the override is installed, and every registration event, the
\* one its own registration fired included, has been handled.
C4_Witness ==
    /\ installs = 1
    /\ services.present
    /\ services.depth = 1
    /\ fired >= 2
    /\ events = <<>>

\* C5: merge_light_attributes: when defaults and overrides both hold a
\* color key, the result is the non-color entries of defaults overlaid with
\* overrides; in every other case it is defaults overlaid with overrides.
C5_MergeAttributes ==
    merge.done =>
        LET d == merge.defaults
            o == merge.overrides
            r == merge.result
            colorKeys == {"kelvin", "rgb_color", "white_value", "color_temp",
                          "color_name", "hs_color"}
            both == (DOMAIN d) \cap colorKeys # {} /\ (DOMAIN o) \cap colorKeys # {}
            kept == IF both THEN (DOMAIN d) \ colorKeys ELSE DOMAIN d
        IN  /\ DOMAIN r = kept \cup DOMAIN o
            /\ \A k \in DOMAIN r : r[k] = IF k \in DOMAIN o THEN o[k] ELSE d[k]
            /\ (d = EmptyMap /\ o = EmptyMap) => r = EmptyMap

\* C5 witness: a default color_temp dropped for an override hs_color, the
\* default brightness kept.
C5_Witness ==
    /\ merge.done
    /\ DOMAIN merge.defaults = {"brightness", "color_temp", "state"}
    /\ DOMAIN merge.overrides = {"hs_color"}
    /\ DOMAIN merge.result = {"brightness", "hs_color", "state"}

\* C6: every request for a light that the override handles, the light in a
\* group or not, attributes injected or not, whatever the state of the
\* group's preset selector, reaches the original turn-on handler exactly
\* once.
C6_ForwardedOnce ==
    (forwarded.handled /\ RequestLight(forwarded.caller) # None) =>
        (forwarded.calls = 1 /\ forwarded.target = 0)

\* C7: when the override injects a group's attributes, every field the
\* caller supplied reaches the original handler with the caller's value.
C7_CallerWins ==
    (forwarded.handled /\ forwarded.injected) =>
        \A k \in DOMAIN forwarded.caller :
            /\ k \in DOMAIN forwarded.event_data
            /\ forwarded.event_data[k] = forwarded.caller[k]

\* two toggle commands for run.group have run to their end, one after the
\* other, with nothing else happening since the first one started
ToggledTwice == run.started = 2 /\ AllIdle

\* C8 as stated: two consecutive toggle commands leave every light of the
\* group in its original on/off state (here for a selector that has a
\* state, so that every light's settings resolve).
C8_ToggleInverse ==
    (ToggledTwice /\ states[SELECTOR] # NoState) =>
        \A l \in GroupLights(run.group) :
            (states[l] = "on") <=> (run.orig[l] = "on")

\* C8 amended: two consecutive toggle commands leave every light of the
\* group in its original on/off state when no light of the group was on at
\* first; when some light was on, they leave on exactly the lights whose
\* resolved policy is not off (none when the selector has no state).
C8_ToggleTwice ==
    ToggledTwice =>
        IF \E l \in GroupLights(run.group) : run.orig[l] = "on"
        THEN \A l \in GroupLights(run.group) :
                (states[l] = "on") <=>
                    /\ states[SELECTOR] # NoState
                    /\ get_light_settings(states, run.group, l).meta.state # "off"
        ELSE \A l \in GroupLights(run.group) :
                (states[l] = "on") <=> (run.orig[l] = "on")

\* C8 witness: both lights of living were off; the first toggle turned them
\* on, the second one off again.
C8_Witness ==
    /\ ToggledTwice
    /\ run.group = "living"
    /\ run.orig["a"] = "off"
    /\ run.orig["b"] = "off"
    /\ run.orig[SELECTOR] = "Bright"
    /\ last.op = "light_toggle"
    /\ last.cmd.service = "turn_off"
    /\ states["a"] = "off"
    /\ states["b"] = "off"

\* C9: the toggle command takes anything_on to be true exactly when some
\* light of the group has the state on (a light without a state is not on);
\* when it is true the command does what turnOff does, the one turn-off for
\* the group's lights, and when it is false what turnOn does, never both.
C9_Toggle ==
    (last.op = "light_toggle" /\ last.arg["light_group"] \in DOMAIN Config) =>
        LET g == last.arg["light_group"]
            anythingOn == \E l \in GroupLights(g) : last.pre[l] = "on"
            turnOn == turn_on_block(last.pre, g, 1, EmptyMap, <<>>)
        IN  /\ last.anything_on = anythingOn
            /\ anythingOn =>
                  /\ last.cmd.service = "turn_off"
                  /\ last.cmd.data = [entity_id |-> [list |-> TRUE,
                                                      ids |-> Config[g].lights]]
                  /\ last.steps = <<>>
                  /\ last.exc = "none"
            /\ ~anythingOn =>
                  /\ last.cmd.service # "turn_off"
                  /\ last.cmd = turnOn.cmd
                  /\ last.steps = turnOn.steps
                  /\ last.exc = turnOn.exc
                  /\ \A l \in Lights : states[l] # last.pre[l] =>
                        (states[l] = "on" /\ last.cmd.service = "turn_on")

\* C9 witness: light a has no state and light b is off, so nothing is on
\* and the toggle turns the group on.
C9_Witness ==
    /\ last.op = "light_toggle"
    /\ last.arg["light_group"] = "living"
    /\ last.pre["a"] = NoState
    /\ last.pre["b"] = "off"
    /\ ~last.anything_on
    /\ last.cmd.service = "turn_on"

\* C10: a group command that names a group the registry does not hold ends
\* without a light command and without an exception leaving the handler.
C10_UnknownGroup ==
    (last.op \in {"light_on", "light_off", "light_toggle"}
        /\ last.arg["light_group"] \notin DOMAIN Config) =>
        /\ last.cmd.service = "none"
        /\ last.exc = "none"

\* the block that was executed last belongs to a reaction that needs the
\* preset of a group the registry holds
NeedsPreset ==
    \/ last.op \in {"update", "turn_on"}
    \/ last.op = "state_changed"
          /\ get_group_by_preset_id(last.arg.entity_id) # <<>>
          /\ last.arg.old_state
    \/ last.op = "light_on" /\ last.arg["light_group"] \in DOMAIN Config
    \/ last.op = "light_toggle" /\ last.arg["light_group"] \in DOMAIN Config
          /\ ~last.anything_on

\* C11: a reaction that needs the preset while the group's preset selector
\* has no state ends that group's update without an exception leaving the
\* handler.
C11_MissingSelectorIsLocal ==
    (NeedsPreset /\ last.pre[SELECTOR] = NoState) => last.exc = "none"

\* the values of state that get_light_settings' callers know
RecognisedStates == {"on", "off", "on_if_anything_on"}

\* C12: in the group update reaction a light that is off and whose resolved
\* state is none of on, off, on_if_anything_on is turned on, with its
\* resolved attributes, exactly when the reaction's anything_on is true.
C12_UnrecognisedAsDefault ==
    UpdateBlock =>
        \A j \in 1..Len(last.steps) :
            LET step == last.steps[j]
                settings == get_light_settings(last.pre, step.group, step.light)
            IN  (settings.meta.state \notin RecognisedStates
                    /\ last.pre[step.light] # "on") =>
                    IF step.anything_on
                    THEN IsTurnOn(step.cmd, step.light, settings.attributes)
                    ELSE step.cmd.service = "none"

\* the groups whose preset selector is the entity
GroupsOf(entity_id) == SelectSeq(GroupOrder, LAMBDA g : Config[g].preset = entity_id)

IsSuffix(t, q) == Len(t) <= Len(q) /\ t = SubSeq(q, Len(q) - Len(t) + 1, Len(q))

\* a block of the update reaction over `groups` that did not raise has
\* either gone through the last light of the last group, or is suspended
\* with the groups from the current one on still to be handled
ReachesEvery(groups) ==
    /\ last.steps # <<>>
    /\ IF last.cmd.service = "none"
          \/ (LastStep.group = groups[Len(groups)]
                /\ LastStep.i = Len(Config[LastStep.group].lights))
       THEN /\ LastStep.group = groups[Len(groups)]
            /\ LastStep.i = Len(Config[LastStep.group].lights)
       ELSE \E s \in Slots :
               /\ tasks[s].kind = "update"
               /\ IsSuffix(tasks[s].groups, groups)
               /\ Head(tasks[s].groups) = LastStep.group
               /\ tasks[s].i = LastStep.i + 1

\* C13: a state-changed event starts the group update reaction, at the
\* first light of the first group, for every group whose preset selector
\* is the event's entity, and only when the event has an old_state; an
\* event for another entity, or one without old_state, emits no command and
\* starts nothing.  (A reaction that finds the selector without a state
\* ends with the exception of C11.)
C13_UpdateTriggered ==
    /\ last.op = "state_changed" =>
          LET groups == GroupsOf(last.arg.entity_id)
          IN  IF groups = <<>> \/ ~last.arg.old_state
              THEN /\ last.cmd.service = "none"
                   /\ last.steps = <<>>
                   /\ last.exc = "none"
                   /\ states = last.pre
              ELSE \/ last.exc = "AttributeError" /\ last.pre[SELECTOR] = NoState
                   \/ /\ last.exc = "none"
                      /\ last.steps # <<>>
                      /\ last.steps[1].group = groups[1]
                      /\ last.steps[1].i = 1
                      /\ ReachesEvery(groups)
    /\ (last.op = "update" /\ last.exc = "none") => ReachesEvery(last.arg.groups)
    /\ \A s \in Slots :
          tasks[s].kind = "update" =>
              tasks[s].groups # <<>> /\ IsSuffix(tasks[s].groups, GroupsOf(SELECTOR))

\* C13 witness: the selector went to "Bright" with every light off; the
\* reaction went through living and hall and had no command to send.
C13_Witness ==
    /\ last.op = "state_changed"
    /\ last.arg.entity_id = SELECTOR
    /\ last.arg.old_state
    /\ last.pre[SELECTOR] = "Bright"
    /\ Len(last.steps) = 3
    /\ last.steps[1].group = "living"
    /\ last.steps[3].group = "hall"
    /\ last.cmd.service = "none"

\* the selector's value names no preset of group g
UnknownPreset(st, g) ==
    /\ st[SELECTOR] # NoState
    /\ Lower(st[SELECTOR]) \notin DOMAIN Config[g].presets

\* under a selector value that names no preset of the group, every light's
\* effective settings are no attributes and the policy on_if_anything_on
UnknownPresetSettings ==
    \A g \in DOMAIN Config, v \in SelectorStates \ {NoState} :
        LET st == [states EXCEPT ![SELECTOR] = v]
        IN  UnknownPreset(st, g) =>
                \A l \in GroupLights(g) :
                    get_light_settings(st, g, l)
                        = [attributes |-> EmptyMap,
                           meta |-> [state |-> "on_if_anything_on"]]

\* C14 as stated: settings under an unknown preset are empty with policy
\* on_if_anything_on, and turnOn under an unknown preset sends every light
\* a turn-on that carries no attributes.
C14_UnknownPresetBare ==
    /\ UnknownPresetSettings
    /\ TurnOnBlock =>
          \A j \in 1..Len(last.steps) :
              UnknownPreset(last.pre, last.steps[j].group) =>
                  last.steps[j].cmd
                      = [service |-> "turn_on",
                         data |-> [entity_id |-> [list |-> FALSE,
                                                  ids |-> <<last.steps[j].light>>]]]

\* C14 amended: settings under an unknown preset are empty with policy
\* on_if_anything_on; turnOn under an unknown preset sends every light a
\* turn-on that carries no attributes when the command has no
\* preset_brightness_pct, and brightness 255 * pct / 100 alone when it has.
C14_UnknownPreset ==
    /\ UnknownPresetSettings
    /\ TurnOnBlock =>
          \A j \in 1..Len(last.steps) :
              UnknownPreset(last.pre, last.steps[j].group) =>
                  LET target == [entity_id |-> [list |-> FALSE,
                                                ids |-> <<last.steps[j].light>>]]
                  IN  /\ last.steps[j].cmd.service = "turn_on"
                      /\ last.steps[j].cmd.data =
                            IF "preset_brightness_pct" \in DOMAIN TurnOnParams
                            THEN Overlay(target,
                                   [brightness |->
                                      (255 * TurnOnParams["preset_brightness_pct"])
                                          \div 100])
                            ELSE target

\* C14 witness: turnOn of living with preset_brightness_pct 20 under the
\* selector value "away" has turned a on and now sends b brightness 51.
C14_Witness ==
    /\ last.op = "turn_on"
    /\ last.pre[SELECTOR] = "away"
    /\ "preset_brightness_pct" \in DOMAIN last.arg.params
    /\ last.arg.params["preset_brightness_pct"] = 20
    /\ Len(last.steps) = 1
    /\ last.steps[1].light = "b"
    /\ last.cmd.service = "turn_on"
    /\ DOMAIN last.cmd.data = {"entity_id", "brightness"}
    /\ last.cmd.data["brightness"] = 51

\* a step of the listener of service_registered on an event that announces
\* light.turn_on
HandlesTurnOnEvent ==
    /\ events # <<>>
    /\ Head(events) = [domain |-> "light", service |-> "turn_on"]
    /\ (events' = Tail(events) \/ installs' = installs + 1)

\* C15: a light.turn_on registration event handled before the override is
\* installed and while light.turn_on is not in the registry installs
\* nothing: the flag stays unset and the registry is as it was; one handled
\* while the service is there installs the override and sets the flag.
C15_SkipThenRetry ==
    [][(HandlesTurnOnEvent /\ ~light_override_registered) =>
          IF services.present
          THEN /\ installs' = installs + 1
               /\ light_override_registered'
               /\ services' = [present |-> TRUE, depth |-> services.depth + 1]
          ELSE /\ installs' = installs
               /\ ~light_override_registered'
               /\ services' = services]_vars

\* C15 witness: an installation was given up for want of the service, and a
\* later registration event installed the override.
C15_Witness ==
    /\ skips >= 1
    /\ installs = 1
    /\ light_override_registered
    /\ services = [present |-> TRUE, depth |-> 1]

\* C16: the turnOff command sends one turn-off whose entity_id is the list
\* of all the group's lights, whatever their states and whatever the
\* selector's, and nothing else: no light is handled on its own.
C16_TurnOff ==
    (last.op = "light_off" /\ last.arg["light_group"] \in DOMAIN Config) =>
        LET g == last.arg["light_group"]
        IN  /\ last.cmd.service = "turn_off"
            /\ last.cmd.data = [entity_id |-> [list |-> TRUE, ids |-> Config[g].lights]]
            /\ last.steps = <<>>
            /\ last.exc = "none"
            /\ \A l \in GroupLights(g) : states[l] = "off"
            /\ \A e \in Entities \ GroupLights(g) : states[e] = last.pre[e]

\* C16 witness: living is turned off while a is on, b is off and the
\* selector has no state.
C16_Witness ==
    /\ last.op = "light_off"
    /\ last.arg["light_group"] = "living"
    /\ last.pre["a"] = "on"
    /\ last.pre["b"] = "off"
    /\ last.pre[SELECTOR] = NoState
    /\ last.cmd.service = "turn_off"
    /\ states["a"] = "off"

\* C17: the reserved key state never reaches a light: the attributes
\* resolved for any light under any preset, and with them the request the
\* override builds from them, do not hold it, and no turn-on sent by turnOn,
\* by the toggle or by the group update reaction, nor a request forwarded
\* with injected attributes, carries it.
C17_StateWithheld ==
    /\ \A g \in DOMAIN Config, v \in SelectorStates \ {NoState} :
          \A l \in GroupLights(g) :
              LET attributes ==
                      get_light_settings([states EXCEPT ![SELECTOR] = v], g, l).attributes
              IN  /\ "state" \notin DOMAIN attributes
                  /\ "state" \notin DOMAIN turn_on_light(l, attributes).data
                  /\ "state" \notin
                        DOMAIN augmented([entity_id |-> One(l), transition |-> 1],
                                         attributes)
    /\ last.cmd.service = "turn_on" => "state" \notin DOMAIN last.cmd.data
    /\ \A j \in 1..Len(last.steps) : "state" \notin DOMAIN last.steps[j].cmd.data
    /\ (forwarded.handled /\ forwarded.injected) =>
          /\ "state" \notin DOMAIN forwarded.event_data
          /\ "state" \notin DOMAIN forwarded.data["params"]

\* C17 witness: under "night" both the defaults and the override of a set
\* state; the turn-on sent to a carries hs_color and transition only.
C17_Witness ==
    /\ last.op \in {"state_changed", "light_on", "light_toggle"}
    /\ last.pre[SELECTOR] = "night"
    /\ "state" \in DOMAIN Config["living"].presets["night"]["defaults"]
    /\ "state" \in DOMAIN Config["living"].presets["night"]["a"]
    /\ last.cmd.service = "turn_on"
    /\ last.cmd.data["entity_id"] = [list |-> FALSE, ids |-> <<"a">>]
    /\ DOMAIN last.cmd.data = {"entity_id", "hs_color", "transition"}

\* C18: the group table is read-only: after any sequence of group commands,
\* preset-changed reactions and state changes every group's id, preset
\* selector, light list and presets are what they were at construction.
C18_GroupTableReadOnly == config = Config

\* C18 witness: turnOn of living with preset_brightness_pct 20 under
\* "relax" has sent a the scaled brightness 20; the defaults of relax still
\* say brightness 100 and state on.
C18_Witness ==
    /\ last.op = "light_on"
    /\ "preset_brightness_pct" \in DOMAIN last.arg
    /\ last.pre[SELECTOR] = "relax"
    /\ last.cmd.service = "turn_on"
    /\ last.cmd.data["brightness"] = 20
    /\ config["living"].presets["relax"]["defaults"]
          = [brightness |-> 100, state |-> "on"]

\* the attributes of light l of group g under the selector value v, from the
\* group table as it was built
ResolvedAt(v, g, l) ==
    LET preset == Get(Config[g].presets, Lower(v), EmptyMap)
    IN  Without(merge_light_attributes(Get(preset, "defaults", EmptyMap),
                                       Get(preset, l, EmptyMap)),
                {"state"})

\* C19: every turn-on sent by turnOn, by the toggle or by the group update
\* reaction, in the block a reaction starts with as in the blocks it is
\* resumed for, carries the attributes resolved from the value the
\* selector has when that block runs (with brightness scaled for a turnOn
\* with preset_brightness_pct).
C19_NoStalePreset ==
    (UpdateBlock \/ TurnOnBlock \/ last.op = "light_toggle") =>
        \A j \in 1..Len(last.steps) :
            LET step == last.steps[j]
                attributes == ResolvedAt(last.pre[SELECTOR], step.group, step.light)
                params == IF last.op \in {"light_on", "turn_on"}
                          THEN TurnOnParams ELSE EmptyMap
            IN  step.cmd.service = "turn_on" =>
                    IF "preset_brightness_pct" \in DOMAIN params
                    THEN IsTurnOn(step.cmd, step.light,
                            Overlay(attributes,
                               [brightness |->
                                  (Get(attributes, "brightness", 255)
                                     * params["preset_brightness_pct"]) \div 100]))
                    ELSE IsTurnOn(step.cmd, step.light, attributes)

\* C19 witness: a turnOn of living is resumed at b while the selector says
\* "Bright".  Under "Bright" a has the policy off and turnOn sends a
\* nothing, so the command was suspended at a under another preset; b gets
\* the brightness of "Bright".
C19_Witness ==
    /\ last.op = "turn_on"
    /\ Head(last.arg.groups) = "living"
    /\ last.arg.i = 2
    /\ last.arg.params = EmptyMap
    /\ last.pre[SELECTOR] = "Bright"
    /\ last.cmd.service = "turn_on"
    /\ last.cmd.data = [entity_id |-> [list |-> FALSE, ids |-> <<"b">>],
                        brightness |-> 255]

\* C20: in the group update reaction anything_on is read once per group,
\* when the group's update is entered and before any of its commands; the
\* value is held over the suspensions and decides every on_if_anything_on
\* light of the group, while the light's own state is read when the light
\* is handled.
C20_AnythingOnOnce ==
    UpdateBlock =>
        \A j \in 1..Len(last.steps) :
            LET step == last.steps[j]
                held == last.op = "update"
                          /\ step.group = Head(last.arg.groups)
                          /\ last.arg.i <= Len(Config[step.group].lights)
                settings == get_light_settings(last.pre, step.group, step.light)
            IN  /\ held => step.anything_on = last.arg.anything_on
                /\ ~held => step.anything_on
                              = (\E l \in GroupLights(step.group) : last.pre[l] = "on")
                /\ (settings.meta.state = "on_if_anything_on"
                        /\ last.pre[step.light] # "on") =>
                      ((step.cmd.service = "turn_on") <=> step.anything_on)

\* C20 witness: under "Bright" a (policy off) was on and b off; the
\* reaction turned a off and, resumed with no light on any more, turns b on.
C20_Witness ==
    /\ last.op = "update"
    /\ Head(last.arg.groups) = "living"
    /\ last.arg.i = 2
    /\ last.arg.anything_on
    /\ last.pre[SELECTOR] = "Bright"
    /\ last.pre["a"] = "off"
    /\ last.pre["b"] = "off"
    /\ last.steps[1].light = "b"
    /\ last.steps[1].cmd.service = "turn_on"
    /\ states["b"] = "on"
====
